---- MODULE Spec2Model ----
(***************************************************************************)
(* Checkout and inventory consistency of the POS application.              *)
(*                                                                         *)
(* The client (POS.tsx, handleProcessPayment) issues two separate          *)
(* requests: an INSERT into sales and then a multi-row INSERT into         *)
(* sale_items.  Each request is one PostgreSQL statement running in its    *)
(* own READ COMMITTED transaction.  The BEFORE INSERT trigger              *)
(* set_transaction_number draws from sales_transaction_seq; the AFTER      *)
(* INSERT trigger update_product_quantity_on_sale decrements               *)
(* products.quantity and writes the stock_adjustments ledger row.          *)
(***************************************************************************)
EXTENDS Integers, Sequences, FiniteSets, TLC

(* ------------------------------ bounds --------------------------------- *)
MaxStock == 2          \* initial products.quantity ranges over 0..MaxStock
MaxQty   == 2          \* a cart line's quantity ranges over 1..MaxQty
MaxRetriesBound == 3   \* options.maxRetries ranges over -1..MaxRetriesBound

(* --------------------------- program constants ------------------------- *)
PadWidth == 8          \* LPAD(..., 8, '0')
SeqStart == 1          \* CREATE SEQUENCE ... START 1
initialDelay == 1000   \* retryOperation: initialDelay = 1000
maxDelay == 10000      \* retryOperation: maxDelay = 10000

Sellers  == {"s1", "s2"}
Products == {"p1", "p2"}
NoOne    == "none"

\* last_value of sales_transaction_seq before the first checkout of a run:
\* a fresh sequence, or one that has already issued SeqWrap - 1 numbers
\* (nextval is never rolled back, so the sequence can be ahead of sales).
SeqWrap      == 10 ^ PadWidth
SeqLastStart == {SeqStart - 1, SeqWrap - 1}

VARIABLES
  sales_transaction_seq, \* last value returned by nextval
  sales,                 \* committed rows of table sales
  sale_items,            \* committed rows of table sale_items
  stock_adjustments,     \* committed rows of table stock_adjustments
  quantity,              \* committed products.quantity, per product
  initial_quantity,      \* products.quantity when the run starts (history)
  items,                 \* cartStore.items of each seller's POS session
  pc,                    \* position of each seller in handleProcessPayment
  error,                 \* error the seller's checkout ended with
  NEW_transaction_number, \* NEW.transaction_number of the sales row being inserted
  row_lock,              \* holder of the row lock of each products row
  uncommitted,           \* products.quantity written by an open transaction
  line,                  \* index of the sale_items row whose trigger runs
  prev_qty,              \* trigger variable prev_qty
  pending_items,         \* sale_items rows of the open statement
  pending_ledger,        \* stock_adjustments rows of the open statement
  editingProduct,        \* Inventory page: product whose form is open
  formData_quantity,     \* Inventory page: formData.quantity
  discountPercentage,    \* cartStore.discountPercentage of each session
  taxPercentage,         \* cartStore.taxPercentage of each session
  profile,               \* authStore.profile.id of each session
  user_invitations,      \* committed rows of table user_invitations
  sendInvitation_call,   \* position and email of each sendInvitation call
  retry,                 \* the running retryOperation call
  auth                   \* authStore: user, profile, loading, error; login

vars == << sales_transaction_seq, sales, sale_items, stock_adjustments,
           quantity, initial_quantity, items, pc, error,
           NEW_transaction_number, row_lock,
           uncommitted, line, prev_qty, pending_items, pending_ledger,
           editingProduct, formData_quantity, discountPercentage,
           taxPercentage, profile, user_invitations, sendInvitation_call,
           retry, auth >>

(* ------------------------------ text ----------------------------------- *)
DigitChar == << "0", "1", "2", "3", "4", "5", "6", "7", "8", "9" >>

RECURSIVE ToText(_)
\* bigint::TEXT of a non-negative value
ToText(n) == IF n < 10 THEN << DigitChar[n + 1] >>
             ELSE ToText(n \div 10) \o << DigitChar[(n % 10) + 1] >>

RECURSIVE Fill(_, _)
Fill(n, ch) == IF n <= 0 THEN << >> ELSE << ch >> \o Fill(n - 1, ch)

\* PostgreSQL LPAD(string, length, fill): pads on the left up to length and
\* truncates on the right when the string is longer than length.
LPAD(str, len, ch) ==
  IF Len(str) >= len THEN SubSeq(str, 1, len)
  ELSE Fill(len - Len(str), ch) \o str

TXN_Prefix == << "T", "X", "N", "-" >>

\* 'TXN-' || LPAD(nextval('sales_transaction_seq')::TEXT, 8, '0')
TransactionNumber(v) == TXN_Prefix \o LPAD(ToText(v), PadWidth, "0")

\* nextval('sales_transaction_seq'), INCREMENT 1
nextval(last) == last + 1

IsDigit(ch) == \E d \in 1..Len(DigitChar) : DigitChar[d] = ch

\* regexp_replace(str, '\D', '', 'g')
regexp_replace_non_digits(str) == SelectSeq(str, IsDigit)

RECURSIVE ToBigint(_)
\* text::BIGINT of a string of digits (NULLIF(.., '') and COALESCE(.., 0)
\* give 0 for the empty string)
ToBigint(str) ==
  IF str = << >> THEN 0
  ELSE ToBigint(SubSeq(str, 1, Len(str) - 1)) * 10
       + ((CHOOSE d \in 1..Len(DigitChar) : DigitChar[d] = str[Len(str)]) - 1)

\* the numeric value of a transaction number, as the synchronisation reads it
NumericValue(tn) == ToBigint(regexp_replace_non_digits(tn))

(* --------------------------- constraints ------------------------------- *)
sales_transaction_number_key_dropped(tn, rows) == TRUE

\* UNIQUE (transaction_number) on sales
sales_transaction_number_key(tn, rows) ==
  \A r \in rows : r.transaction_number # tn

products_quantity_check_dropped(q) == TRUE

\* CHECK (quantity >= 0) on products
products_quantity_check(q) == q >= 0

\* CHECK (quantity > 0) on sale_items
sale_items_quantity_check(q) == q > 0

\* CHECKs on the amounts of a sales row: subtotal, discount_amount,
\* tax_amount and total_amount >= 0, discount_percentage in 0..100
sales_amounts_check(row) ==
  /\ row.subtotal >= 0
  /\ row.discount_amount >= 0
  /\ row.discount_percentage >= 0 /\ row.discount_percentage <= 100
  /\ row.tax_amount >= 0
  /\ row.total_amount >= 0

Sellers_can_create_sales_any(row, uid) == TRUE

\* policy "Sellers can create sales": WITH CHECK (seller_id = auth.uid())
Sellers_can_create_sales(row, uid) == row.seller_id = uid

\* policy "Sellers can insert sale items"
Sellers_can_insert_sale_items(row, uid) ==
  \E s \in sales : s.id = row.sale_id /\ s.seller_id = uid

(* ------------------------------- carts --------------------------------- *)
CartLine == [product_id : Products, quantity : 1..MaxQty]

\* cartStore keeps at most one line per product_id (addItem merges)
Carts ==
  { << >> } \cup
  { << l >> : l \in CartLine } \cup
  { c \in CartLine \X CartLine : c[1].product_id # c[2].product_id }

LinesOf(c) == { c[i] : i \in 1..Len(c) }

\* quantity a cart asks of a product (0 when the product is not in it)
Asked(c, p) ==
  IF \E l \in LinesOf(c) : l.product_id = p
  THEN (CHOOSE l \in LinesOf(c) : l.product_id = p).quantity
  ELSE 0

(* ------------------------------ state ---------------------------------- *)
(* ------------------- stores outside the point of sale ------------------ *)
\* the sendInvitation calls that can run at the same time
Calls == {"c1", "c2"}

\* no invitation exists and no sendInvitation call has started
NoInvitations ==
  /\ user_invitations = {}
  /\ sendInvitation_call = [c \in Calls |-> [pc |-> "idle", email |-> NoOne]]

\* no retryOperation call is running
NoRetry ==
  retry = [pc |-> "idle", maxRetries |-> 0, attempt |-> 0, calls |-> 0,
           errors |-> << >>, delay |-> 0, thrown |-> NoOne]

\* authStore as created: user null, profile null, loading true, error null
SignedOut ==
  auth = [pc |-> "idle", user |-> NoOne, profile |-> NoOne, loading |-> TRUE,
          error |-> NoOne, retries |-> 0, fetches |-> 0,
          profileData |-> NoOne, profileError |-> NoOne]

\* the state in which the sessions' carts are drawn from the set carts and
\* the profiles the sessions hold from the set profiles; the cart store's
\* percentages are its initial 0
InitWith(carts, profiles) ==
  /\ sales_transaction_seq \in SeqLastStart
  /\ sales = {}
  /\ sale_items = {}
  /\ stock_adjustments = {}
  /\ quantity \in [Products -> 0..MaxStock]
  /\ initial_quantity = quantity
  /\ items \in [Sellers -> carts]
  /\ pc = [s \in Sellers |-> "idle"]
  /\ error = [s \in Sellers |-> "none"]
  /\ NEW_transaction_number = [s \in Sellers |-> << >>]
  /\ row_lock = [p \in Products |-> NoOne]
  /\ uncommitted = [s \in Sellers |-> [p \in Products |-> 0]]
  /\ line = [s \in Sellers |-> 0]
  /\ prev_qty = [s \in Sellers |-> 0]
  /\ pending_items = [s \in Sellers |-> {}]
  /\ pending_ledger = [s \in Sellers |-> {}]
  /\ editingProduct = NoOne
  /\ formData_quantity = 0
  /\ discountPercentage = [s \in Sellers |-> 0]
  /\ taxPercentage = [s \in Sellers |-> 0]
  /\ profile \in profiles
  /\ NoInvitations
  /\ NoRetry
  /\ SignedOut

\* each session holds the profile of its signed-in user
OwnProfile == [s \in Sellers |-> s]

Init == InitWith(Carts, {OwnProfile})

dbvars  == << sales, sale_items, stock_adjustments, quantity >>
txnvars == << row_lock, uncommitted, line, prev_qty, pending_items,
              pending_ledger >>
formvars == << editingProduct, formData_quantity >>
cartvars == << discountPercentage, taxPercentage, profile >>
appvars  == << user_invitations, sendInvitation_call, retry, auth >>

(* ------------------------------- money --------------------------------- *)
\* products.selling_price in cents (DECIMAL(10, 2)): 399.00 and 3.99
selling_price == [p \in Products |-> IF p = "p1" THEN 39900 ELSE 399]

\* handleAddToCart: unit_price: product.selling_price
unit_price(l) == selling_price[l.product_id]

\* The cart store's amounts are JavaScript numbers; the model carries them
\* exactly, as integer multiples of 1/Fraction cent.  With whole-number
\* percentages the division by 100 is exact; it is done before the
\* multiplication, which gives the same value and keeps the products small.
Fraction == 100 * 100

line_total_without_quantity(price, qty) == price

\* line_total: item.unit_price * item.quantity (whole cents)
line_total(price, qty) == price * qty

RECURSIVE reduce_subtotal(_)
\* items.reduce((sum, item) => sum + item.unit_price * item.quantity, 0)
reduce_subtotal(c) ==
  IF Len(c) = 0 THEN 0
  ELSE reduce_subtotal(SubSeq(c, 1, Len(c) - 1))
       + unit_price(c[Len(c)]) * c[Len(c)].quantity * Fraction

getSubtotal(s) == reduce_subtotal(items[s])

\* (subtotal * discountPercentage) / 100
getDiscountAmount(s) == (getSubtotal(s) \div 100) * discountPercentage[s]

getTaxAmountOnSubtotal(s) == (getSubtotal(s) \div 100) * taxPercentage[s]

\* (afterDiscount * taxPercentage) / 100
getTaxAmount(s) ==
  ((getSubtotal(s) - getDiscountAmount(s)) \div 100) * taxPercentage[s]

\* subtotal - discount + tax
getTotal(s) == getSubtotal(s) - getDiscountAmount(s) + getTaxAmount(s)

\* a non-negative amount stored in a DECIMAL(10, 2) column, in cents:
\* rounded to two fraction digits, ties away from zero
DECIMAL_10_2(x) == (x + Fraction \div 2) \div Fraction

\* sales.tax_amount DEFAULT 0, in cents
tax_amount_default == 0 * Fraction

(* ------------------------- handleProcessPayment ------------------------ *)
handleProcessPaymentUnchecked(s) ==
  /\ pc[s] = "idle"
  /\ pc' = [pc EXCEPT ![s] = "insert_sale"]
  /\ UNCHANGED << sales_transaction_seq, dbvars, initial_quantity, items,
                  error, NEW_transaction_number, txnvars, formvars,
                  cartvars, appvars >>

\* entry of handleProcessPayment: an empty cart returns before any request
handleProcessPayment(s) ==
  /\ pc[s] = "idle"
  /\ IF Len(items[s]) = 0
     THEN /\ pc' = [pc EXCEPT ![s] = "rejected"]
          /\ error' = [error EXCEPT ![s] = "cart_empty"]
     ELSE /\ pc' = [pc EXCEPT ![s] = "insert_sale"]
          /\ UNCHANGED error
  /\ UNCHANGED << sales_transaction_seq, dbvars, initial_quantity, items,
                  NEW_transaction_number, txnvars, formvars,
                  cartvars, appvars >>

\* BEFORE INSERT ON sales: the client leaves transaction_number unset, so
\* the trigger draws the next value of the sequence.  nextval is not
\* transactional: the draw stays even when the insert fails afterwards.
set_transaction_number(s) ==
  /\ pc[s] = "insert_sale"
  /\ IF NEW_transaction_number[s] = << >>
     THEN /\ sales_transaction_seq' = nextval(sales_transaction_seq)
          /\ NEW_transaction_number' =
               [NEW_transaction_number EXCEPT
                  ![s] = TransactionNumber(nextval(sales_transaction_seq))]
     ELSE UNCHANGED << sales_transaction_seq, NEW_transaction_number >>
  /\ pc' = [pc EXCEPT ![s] = "sale_row"]
  /\ UNCHANGED << dbvars, initial_quantity, items, error, txnvars,
                  formvars, cartvars, appvars >>

\* the sales row handleProcessPayment sends, after the trigger
\* (POS.tsx leaves tax_amount out of the insert, so the column takes its
\* default, while total_amount is getTotal(), tax included)
SaleRow(s) ==
  [ id |-> s, seller_id |-> profile[s],
    transaction_number |-> NEW_transaction_number[s],
    subtotal |-> DECIMAL_10_2(getSubtotal(s)),
    discount_amount |-> DECIMAL_10_2(getDiscountAmount(s)),
    discount_percentage |-> discountPercentage[s],
    tax_amount |-> tax_amount_default,
    total_amount |-> DECIMAL_10_2(getTotal(s)) ]

\* the row is checked (policy, CHECKs, unique key) and the statement commits;
\* if (saleError) throw saleError
InsertSale(s) ==
  /\ pc[s] = "sale_row"
  /\ IF ~ Sellers_can_create_sales(SaleRow(s), s)
     THEN /\ pc' = [pc EXCEPT ![s] = "failed"]
          /\ error' = [error EXCEPT ![s] = "row_level_security"]
          /\ UNCHANGED sales
     ELSE IF ~ sales_amounts_check(SaleRow(s))
     THEN /\ pc' = [pc EXCEPT ![s] = "failed"]
          /\ error' = [error EXCEPT ![s] = "sales_amounts_check"]
          /\ UNCHANGED sales
     ELSE IF ~ sales_transaction_number_key(NEW_transaction_number[s], sales)
     THEN /\ pc' = [pc EXCEPT ![s] = "failed"]
          /\ error' = [error EXCEPT ![s] = "sales_transaction_number_key"]
          /\ UNCHANGED sales
     ELSE /\ sales' = sales \cup { SaleRow(s) }
          /\ pc' = [pc EXCEPT ![s] = "insert_items"]
          /\ UNCHANGED error
  /\ UNCHANGED << sales_transaction_seq, sale_items, stock_adjustments,
                  quantity, initial_quantity, items, NEW_transaction_number,
                  txnvars, formvars, cartvars, appvars >>

\* items.map(...): the sale_items rows of the second request
saleItems(s) ==
  { [ sale_id |-> s, product_id |-> items[s][i].product_id,
      quantity |-> items[s][i].quantity,
      unit_price |-> unit_price(items[s][i]),
      line_total |-> line_total(unit_price(items[s][i]),
                                items[s][i].quantity) ] :
    i \in 1..Len(items[s]) }

\* INSERT INTO sale_items (all rows, one statement): row checks first, the
\* AFTER INSERT row triggers are queued and run before the statement ends
InsertSaleItems(s) ==
  /\ pc[s] = "insert_items"
  /\ IF \A r \in saleItems(s) :
          /\ sale_items_quantity_check(r.quantity)
          /\ Sellers_can_insert_sale_items(r, s)
     THEN /\ pending_items' = [pending_items EXCEPT ![s] = saleItems(s)]
          /\ line' = [line EXCEPT ![s] = 1]
          /\ pc' = [pc EXCEPT ![s] = "trigger_select"]
          /\ UNCHANGED error
     ELSE /\ pc' = [pc EXCEPT ![s] = "failed"]
          /\ error' = [error EXCEPT ![s] = "sale_items_rejected"]
          /\ UNCHANGED << pending_items, line >>
  /\ UNCHANGED << sales_transaction_seq, dbvars, initial_quantity, items,
                  NEW_transaction_number, row_lock, uncommitted, prev_qty,
                  pending_ledger, formvars, cartvars, appvars >>

(* -------------------- update_product_quantity_on_sale ------------------ *)
\* products.quantity as a statement of s's transaction reads it: its own
\* uncommitted write if it has one, the committed value otherwise
Visible(s, p) == IF row_lock[p] = s THEN uncommitted[s][p] ELSE quantity[p]

\* SELECT quantity INTO prev_qty FROM products WHERE id = NEW.product_id
\* (a plain read: it takes no lock and sees committed data only)
TriggerSelect(s) ==
  /\ pc[s] = "trigger_select"
  /\ prev_qty' = [prev_qty EXCEPT
                    ![s] = Visible(s, items[s][line[s]].product_id)]
  /\ pc' = [pc EXCEPT ![s] = "trigger_update"]
  /\ UNCHANGED << sales_transaction_seq, dbvars, initial_quantity, items,
                  error, NEW_transaction_number, row_lock, uncommitted, line,
                  pending_items, pending_ledger, formvars, cartvars, appvars >>

SetQuantityFromPrevQty(current, prev, q) == prev - q

\* SET quantity = quantity - NEW.quantity, evaluated on the locked row
SetQuantity(current, prev, q) == current - q

new_qty_read_back(prev, updated, q) == updated

\* new_qty := prev_qty - NEW.quantity
new_qty(prev, updated, q) == prev - q

LedgerRowUnreferenced(s, p, q, prev, new, before, after) ==
  [ product_id |-> p, adjustment_type |-> "sale", quantity_change |-> -q,
    previous_quantity |-> prev, new_quantity |-> new,
    reference_id |-> NoOne, adjusted_by |-> s,
    quantity_before |-> before, quantity_after |-> after ]

\* INSERT INTO stock_adjustments (...) VALUES (...).  quantity_before and
\* quantity_after are history fields: the value of products.quantity the
\* UPDATE found and the value it left.
LedgerRow(s, p, q, prev, new, before, after) ==
  [ product_id |-> p, adjustment_type |-> "sale", quantity_change |-> -q,
    previous_quantity |-> prev, new_quantity |-> new,
    reference_id |-> s, adjusted_by |-> s,
    quantity_before |-> before, quantity_after |-> after ]

RollbackSwallowed(s, reason) ==
  /\ UNCHANGED << row_lock, uncommitted, pending_items, pending_ledger >>
  /\ line' = [line EXCEPT ![s] = 0]
  /\ pc' = [pc EXCEPT ![s] = "commit_items"]
  /\ error' = [error EXCEPT ![s] = reason]

\* the statement fails: everything it wrote is rolled back, locks released
Rollback(s, reason) ==
  /\ row_lock' = [p \in Products |->
                    IF row_lock[p] = s THEN NoOne ELSE row_lock[p]]
  /\ uncommitted' = [uncommitted EXCEPT ![s] = [p \in Products |-> 0]]
  /\ pending_items' = [pending_items EXCEPT ![s] = {}]
  /\ pending_ledger' = [pending_ledger EXCEPT ![s] = {}]
  /\ line' = [line EXCEPT ![s] = 0]
  /\ pc' = [pc EXCEPT ![s] = "failed"]
  /\ error' = [error EXCEPT ![s] = reason]

\* UPDATE products SET quantity = quantity - NEW.quantity: waits for the
\* row lock, then works on the latest version of the row; the CHECK is
\* evaluated on the new row.  Then the ledger row is inserted.
TriggerUpdate(s) ==
  /\ pc[s] = "trigger_update"
  /\ LET p == items[s][line[s]].product_id
         q == items[s][line[s]].quantity
         current == Visible(s, p)
         updated == SetQuantity(current, prev_qty[s], q)
     IN /\ row_lock[p] \in {NoOne, s}
        /\ IF ~ products_quantity_check(updated)
           THEN /\ Rollback(s, "products_quantity_check")
                /\ UNCHANGED prev_qty
           ELSE /\ row_lock' = [row_lock EXCEPT ![p] = s]
                /\ uncommitted' = [uncommitted EXCEPT ![s][p] = updated]
                /\ pending_ledger' =
                     [pending_ledger EXCEPT ![s] = @ \cup
                        { LedgerRow(s, p, q, prev_qty[s],
                                    new_qty(prev_qty[s], updated, q),
                                    current, updated) }]
                /\ IF line[s] < Len(items[s])
                   THEN /\ line' = [line EXCEPT ![s] = @ + 1]
                        /\ pc' = [pc EXCEPT ![s] = "trigger_select"]
                   ELSE /\ line' = [line EXCEPT ![s] = 0]
                        /\ pc' = [pc EXCEPT ![s] = "commit_items"]
                /\ UNCHANGED << pending_items, error, prev_qty >>
  /\ UNCHANGED << sales_transaction_seq, dbvars, initial_quantity, items,
                  NEW_transaction_number, formvars, cartvars, appvars >>

\* s waits for a row lock that t holds
WaitsFor(s, t) ==
  /\ pc[s] = "trigger_update"
  /\ t # s
  /\ row_lock[items[s][line[s]].product_id] = t

\* two statements wait for each other's row lock: PostgreSQL's deadlock
\* detector makes one of them fail
DeadlockDetected(s) ==
  /\ \E t \in Sellers : WaitsFor(s, t) /\ WaitsFor(t, s)
  /\ Rollback(s, "deadlock_detected")
  /\ UNCHANGED << sales_transaction_seq, dbvars, initial_quantity, items,
                  NEW_transaction_number, prev_qty, formvars,
                  cartvars, appvars >>

\* the sale_items statement commits: items, stock and ledger rows become
\* visible together; if (itemsError) throw itemsError is not taken
CommitSaleItems(s) ==
  /\ pc[s] = "commit_items"
  /\ sale_items' = sale_items \cup pending_items[s]
  /\ stock_adjustments' = stock_adjustments \cup pending_ledger[s]
  /\ quantity' = [p \in Products |->
                    IF row_lock[p] = s THEN uncommitted[s][p]
                    ELSE quantity[p]]
  /\ row_lock' = [p \in Products |->
                    IF row_lock[p] = s THEN NoOne ELSE row_lock[p]]
  /\ uncommitted' = [uncommitted EXCEPT ![s] = [p \in Products |-> 0]]
  /\ pending_items' = [pending_items EXCEPT ![s] = {}]
  /\ pending_ledger' = [pending_ledger EXCEPT ![s] = {}]
  /\ pc' = [pc EXCEPT ![s] = "done"]
  /\ UNCHANGED << sales_transaction_seq, sales, initial_quantity, items,
                  error, NEW_transaction_number, line, prev_qty, formvars,
                  cartvars, appvars >>

Next ==
  \E s \in Sellers :
    \/ handleProcessPayment(s)
    \/ set_transaction_number(s)
    \/ InsertSale(s)
    \/ InsertSaleItems(s)
    \/ TriggerSelect(s)
    \/ TriggerUpdate(s)
    \/ DeadlockDetected(s)
    \/ CommitSaleItems(s)

Spec == Init /\ [][Next]_vars

(* ------------------------ Inventory page (admin) ----------------------- *)
\* values the quantity input of the product form can hold
FormQuantities == -1..MaxStock

\* handleOpenForm(product): the form is filled from the product
handleOpenForm(p) ==
  /\ editingProduct = NoOne
  /\ editingProduct' = p
  /\ formData_quantity' = quantity[p]
  /\ UNCHANGED << sales_transaction_seq, dbvars, initial_quantity, items, pc,
                  error, NEW_transaction_number, txnvars, cartvars, appvars >>

\* onChange of the quantity input: setFormData({...formData, quantity})
setFormData(v) ==
  /\ editingProduct # NoOne
  /\ formData_quantity # v
  /\ formData_quantity' = v
  /\ UNCHANGED << sales_transaction_seq, dbvars, initial_quantity, items, pc,
                  error, NEW_transaction_number, txnvars, editingProduct,
                  cartvars, appvars >>

\* handleSubmit -> updateProduct(editingProduct.id, formData): UPDATE
\* products SET quantity = formData.quantity, ... (one statement; it waits
\* for the row lock).  On success the form closes, on error it stays open.
handleSubmit ==
  /\ editingProduct # NoOne
  /\ row_lock[editingProduct] = NoOne
  /\ IF products_quantity_check(formData_quantity)
     THEN /\ quantity' = [quantity EXCEPT
                            ![editingProduct] = formData_quantity]
          /\ editingProduct' = NoOne
          /\ formData_quantity' = 0
     ELSE UNCHANGED << quantity, editingProduct, formData_quantity >>
  /\ UNCHANGED << sales_transaction_seq, sales, sale_items, stock_adjustments,
                  initial_quantity, items, pc, error, NEW_transaction_number,
                  txnvars, cartvars, appvars >>

\* one seller checks out a one-line cart (the other session's cart is
\* empty) while an administrator edits products
InitInventory ==
  /\ Init
  /\ sales_transaction_seq = SeqStart - 1
  /\ \E s \in Sellers :
       /\ Len(items[s]) = 1
       /\ \A t \in Sellers \ {s} : items[t] = << >>

NextInventory ==
  \/ \E s \in Sellers :
       \/ handleProcessPayment(s)
       \/ set_transaction_number(s)
       \/ InsertSale(s)
       \/ InsertSaleItems(s)
       \/ TriggerSelect(s)
       \/ TriggerUpdate(s)
       \/ CommitSaleItems(s)
  \/ \E p \in Products : handleOpenForm(p)
  \/ \E v \in FormQuantities : setFormData(v)
  \/ handleSubmit

SpecInventory == InitInventory /\ [][NextInventory]_vars

\* Scenario B: both sellers check out the last unit of the same product
LastUnit == << [product_id |-> "p1", quantity |-> 1] >>

InitLastUnit ==
  /\ Init
  /\ sales_transaction_seq = SeqStart - 1
  /\ quantity["p1"] = 1
  /\ \A s \in Sellers : items[s] = LastUnit

NextLastUnit ==
  \E s \in Sellers :
    \/ handleProcessPayment(s)
    \/ set_transaction_number(s)
    \/ InsertSale(s)
    \/ InsertSaleItems(s)
    \/ TriggerSelect(s)
    \/ TriggerUpdate(s)
    \/ CommitSaleItems(s)

SpecLastUnit == InitLastUnit /\ [][NextLastUnit]_vars

(* --------------------- discount and tax of the cart -------------------- *)
\* values typed into the discount and tax inputs of the POS page
DiscountInputs == {-10, 10, 50, 110}
TaxInputs      == {-16, 16}

Min(a, b) == IF a < b THEN a ELSE b
Max(a, b) == IF a > b THEN a ELSE b

setDiscountUnclamped(s, percentage) ==
  /\ pc[s] = "idle"
  /\ percentage # discountPercentage[s]
  /\ discountPercentage' = [discountPercentage EXCEPT ![s] = percentage]
  /\ UNCHANGED << sales_transaction_seq, dbvars, initial_quantity, items,
                  pc, error, NEW_transaction_number, txnvars, formvars,
                  taxPercentage, profile, appvars >>

\* setDiscount: Math.min(100, Math.max(0, percentage))
setDiscount(s, percentage) ==
  /\ pc[s] = "idle"
  /\ discountPercentage' =
       [discountPercentage EXCEPT ![s] = Min(100, Max(0, percentage))]
  /\ discountPercentage'[s] # discountPercentage[s]
  /\ UNCHANGED << sales_transaction_seq, dbvars, initial_quantity, items, pc,
                  error, NEW_transaction_number, txnvars, formvars,
                  taxPercentage, profile, appvars >>

\* setTax: Math.max(0, percentage)
setTax(s, percentage) ==
  /\ pc[s] = "idle"
  /\ taxPercentage' = [taxPercentage EXCEPT ![s] = Max(0, percentage)]
  /\ taxPercentage'[s] # taxPercentage[s]
  /\ UNCHANGED << sales_transaction_seq, dbvars, initial_quantity, items, pc,
                  error, NEW_transaction_number, txnvars, formvars,
                  discountPercentage, profile, appvars >>

\* one seller sets discount and tax and checks out (the other session's
\* cart is empty)
InitTotals ==
  /\ Init
  /\ sales_transaction_seq = SeqStart - 1
  /\ \E s \in Sellers :
       /\ Len(items[s]) > 0
       /\ \A t \in Sellers \ {s} : items[t] = << >>

NextTotals ==
  \E s \in Sellers :
    \/ \E percentage \in DiscountInputs : setDiscount(s, percentage)
    \/ \E percentage \in TaxInputs : setTax(s, percentage)
    \/ handleProcessPayment(s)
    \/ set_transaction_number(s)
    \/ InsertSale(s)
    \/ InsertSaleItems(s)
    \/ TriggerSelect(s)
    \/ TriggerUpdate(s)
    \/ CommitSaleItems(s)

SpecTotals == InitTotals /\ [][NextTotals]_vars

(* ----------------------------- cart store ------------------------------ *)
\* quantities an addItem call can carry and quantities an
\* updateItemQuantity call can set
QuantityInputs == {-1, 0, 1}
UpdateInputs   == (-1)..MaxQty

InCart(state_items, productId) ==
  \E i \in 1..Len(state_items) : state_items[i].product_id = productId

addItem_appending(state_items, item) == Append(state_items, item)

\* addItem's set((state) => ...): existing line +quantity, else append
addItem_set(state_items, item) ==
  IF InCart(state_items, item.product_id)
  THEN [ i \in 1..Len(state_items) |->
           IF state_items[i].product_id = item.product_id
           THEN [ state_items[i] EXCEPT !.quantity = @ + item.quantity ]
           ELSE state_items[i] ]
  ELSE Append(state_items, item)

\* removeItem's filter
removeItem_set(state_items, productId) ==
  SelectSeq(state_items, LAMBDA l : l.product_id # productId)

\* updateItemQuantity: quantity <= 0 removes, otherwise the line is set
updateItemQuantity_set(state_items, productId, qty) ==
  IF qty <= 0 THEN removeItem_set(state_items, productId)
  ELSE [ i \in 1..Len(state_items) |->
           IF state_items[i].product_id = productId
           THEN [ state_items[i] EXCEPT !.quantity = qty ]
           ELSE state_items[i] ]

\* line quantities stay within -MaxQty..MaxQty (cap of the model)
WithinCap(state_items) ==
  \A i \in 1..Len(state_items) :
    state_items[i].quantity \in (-MaxQty)..MaxQty

\* addItem, called by the page while no checkout is running
addItem(s, item) ==
  /\ pc[s] = "idle"
  /\ addItem_set(items[s], item) # items[s]
  /\ WithinCap(addItem_set(items[s], item))
  /\ items' = [items EXCEPT ![s] = addItem_set(items[s], item)]
  /\ UNCHANGED << sales_transaction_seq, dbvars, initial_quantity, pc,
                  error, NEW_transaction_number, txnvars, formvars,
                  cartvars, appvars >>

updateItemQuantity(s, productId, qty) ==
  /\ pc[s] = "idle"
  /\ updateItemQuantity_set(items[s], productId, qty) # items[s]
  /\ items' = [items EXCEPT
                 ![s] = updateItemQuantity_set(items[s], productId, qty)]
  /\ UNCHANGED << sales_transaction_seq, dbvars, initial_quantity, pc,
                  error, NEW_transaction_number, txnvars, formvars,
                  cartvars, appvars >>

removeItem(s, productId) ==
  /\ pc[s] = "idle"
  /\ removeItem_set(items[s], productId) # items[s]
  /\ items' = [items EXCEPT ![s] = removeItem_set(items[s], productId)]
  /\ UNCHANGED << sales_transaction_seq, dbvars, initial_quantity, pc,
                  error, NEW_transaction_number, txnvars, formvars,
                  cartvars, appvars >>

\* clear: items [], discountPercentage 0, taxPercentage 0
clear(s) ==
  /\ pc[s] = "idle"
  /\ << items[s], discountPercentage[s], taxPercentage[s] >> # << << >>, 0, 0 >>
  /\ items' = [items EXCEPT ![s] = << >>]
  /\ discountPercentage' = [discountPercentage EXCEPT ![s] = 0]
  /\ taxPercentage' = [taxPercentage EXCEPT ![s] = 0]
  /\ UNCHANGED << sales_transaction_seq, dbvars, initial_quantity, pc,
                  error, NEW_transaction_number, txnvars, formvars,
                  profile, appvars >>

handleProcessPaymentFinally(s) ==
  /\ pc[s] \in {"done", "failed"}
  /\ items' = [items EXCEPT ![s] = << >>]
  /\ discountPercentage' = [discountPercentage EXCEPT ![s] = 0]
  /\ taxPercentage' = [taxPercentage EXCEPT ![s] = 0]
  /\ pc' = [pc EXCEPT ![s] = "cleared"]
  /\ UNCHANGED << sales_transaction_seq, dbvars, initial_quantity, error,
                  NEW_transaction_number, txnvars, formvars, profile, appvars >>

\* the end of handleProcessPayment's try block, reached when both inserts
\* succeeded: clear(); setDiscount(0); setTax(0)
handleProcessPaymentSucceeded(s) ==
  /\ pc[s] = "done"
  /\ items' = [items EXCEPT ![s] = << >>]
  /\ discountPercentage' = [discountPercentage EXCEPT ![s] = 0]
  /\ taxPercentage' = [taxPercentage EXCEPT ![s] = 0]
  /\ pc' = [pc EXCEPT ![s] = "cleared"]
  /\ UNCHANGED << sales_transaction_seq, dbvars, initial_quantity, error,
                  NEW_transaction_number, txnvars, formvars, profile, appvars >>

\* the seller at the till in the cart specification
CartSeller == CHOOSE s \in Sellers : TRUE

\* the cart store as created: no items, both percentages 0
InitCart ==
  /\ InitWith({ << >> }, {OwnProfile})
  /\ sales_transaction_seq = SeqStart - 1

NextCart ==
  \E s \in {CartSeller} :
    \/ \E p \in Products, q \in QuantityInputs :
         addItem(s, [product_id |-> p, quantity |-> q])
    \/ \E p \in Products, q \in UpdateInputs : updateItemQuantity(s, p, q)
    \/ \E p \in Products : removeItem(s, p)
    \/ clear(s)
    \/ \E percentage \in DiscountInputs : setDiscount(s, percentage)
    \/ \E percentage \in TaxInputs : setTax(s, percentage)
    \/ handleProcessPayment(s)
    \/ set_transaction_number(s)
    \/ InsertSale(s)
    \/ InsertSaleItems(s)
    \/ TriggerSelect(s)
    \/ TriggerUpdate(s)
    \/ CommitSaleItems(s)
    \/ handleProcessPaymentSucceeded(s)

SpecCart == InitCart /\ [][NextCart]_vars

(* ------------------- sequence synchronisation (migration) -------------- *)
\* numbers the former generator (MAX + 1, same padding) left in sales, by
\* the id of their sales row: the first two and the last of 8 digits
History == [h1 |-> SeqStart, h2 |-> SeqStart + 1, h3 |-> SeqWrap - 1]

\* a sales row from before the migration
HistoricSale(h) ==
  [id |-> h, seller_id |-> CHOOSE s \in Sellers : TRUE,
   transaction_number |-> TransactionNumber(History[h]),
   subtotal |-> 0, discount_amount |-> 0, discount_percentage |-> 0,
   tax_amount |-> tax_amount_default, total_amount |-> 0]

RECURSIVE MaxOf(_)
\* COALESCE(MAX(..), 0) over a finite set of non-negative values
MaxOf(S) ==
  IF S = {} THEN 0
  ELSE LET x == CHOOSE y \in S : TRUE
       IN Max(x, MaxOf(S \ {x}))

\* SELECT COALESCE(MAX(NULLIF(regexp_replace(..), '')::BIGINT), 0)
\*   FROM sales WHERE transaction_number LIKE 'TXN-%'
max_num ==
  MaxOf({ NumericValue(r.transaction_number) :
            r \in { x \in sales :
                      /\ Len(x.transaction_number) >= Len(TXN_Prefix)
                      /\ SubSeq(x.transaction_number, 1, Len(TXN_Prefix))
                           = TXN_Prefix } })

\* setval('sales_transaction_seq', value): the next nextval gives value + 1
setval(value) == value

\* the sequence has just been created, sales holds rows of the former
\* generator and the DO block has not run yet; one seller will check out
InitSync ==
  /\ sales_transaction_seq = SeqStart - 1
  /\ \E H \in SUBSET (DOMAIN History) : sales = { HistoricSale(h) : h \in H }
  /\ sale_items = {}
  /\ stock_adjustments = {}
  /\ quantity \in [Products -> 0..MaxStock]
  /\ initial_quantity = quantity
  /\ items \in [Sellers -> Carts]
  /\ \E s \in Sellers :
       /\ Len(items[s]) > 0
       /\ \A t \in Sellers \ {s} : items[t] = << >>
  /\ pc = [s \in Sellers |-> "migration"]
  /\ error = [s \in Sellers |-> "none"]
  /\ NEW_transaction_number = [s \in Sellers |-> << >>]
  /\ row_lock = [p \in Products |-> NoOne]
  /\ uncommitted = [s \in Sellers |-> [p \in Products |-> 0]]
  /\ line = [s \in Sellers |-> 0]
  /\ prev_qty = [s \in Sellers |-> 0]
  /\ pending_items = [s \in Sellers |-> {}]
  /\ pending_ledger = [s \in Sellers |-> {}]
  /\ editingProduct = NoOne
  /\ formData_quantity = 0
  /\ discountPercentage = [s \in Sellers |-> 0]
  /\ taxPercentage = [s \in Sellers |-> 0]
  /\ profile = OwnProfile
  /\ NoInvitations
  /\ NoRetry
  /\ SignedOut

\* the DO block of the migration: IF max_num > 0 THEN setval(.., max_num)
SynchroniseSequence ==
  /\ \A s \in Sellers : pc[s] = "migration"
  /\ sales_transaction_seq' =
       IF max_num > 0 THEN setval(max_num) ELSE sales_transaction_seq
  /\ pc' = [s \in Sellers |-> "idle"]
  /\ UNCHANGED << dbvars, initial_quantity, items, error,
                  NEW_transaction_number, txnvars, formvars,
                  cartvars, appvars >>

NextSync ==
  \/ SynchroniseSequence
  \/ \E s \in Sellers :
       \/ handleProcessPayment(s)
       \/ set_transaction_number(s)
       \/ InsertSale(s)
       \/ InsertSaleItems(s)
       \/ TriggerSelect(s)
       \/ TriggerUpdate(s)
       \/ CommitSaleItems(s)

SpecSync == InitSync /\ [][NextSync]_vars

(* --------------------------- row level security ------------------------ *)
Admin == "admin"
Users == Sellers \cup {Admin}

\* profiles.role
role == [u \in Users |-> IF u = Admin THEN "admin" ELSE "seller"]

\* is_admin(user_id): EXISTS (.. profiles WHERE id = user_id AND role = 'admin')
is_admin(uid) == \E u \in Users : u = uid /\ role[u] = "admin"

Sellers_can_view_own_sales_any(row, uid) == TRUE

\* policy "Sellers can view own sales": USING (seller_id = auth.uid())
Sellers_can_view_own_sales(row, uid) == row.seller_id = uid

\* policy "Admins can view all sales": USING (is_admin(auth.uid()))
Admins_can_view_all_sales(row, uid) == is_admin(uid)

\* policy "Admins can manage sales" FOR UPDATE: USING and WITH CHECK
Admins_can_manage_sales(row, uid) == is_admin(uid)

\* SELECT * FROM sales as uid: the rows a SELECT policy lets through
SelectSales(uid) ==
  { r \in sales : \/ Sellers_can_view_own_sales(r, uid)
                  \/ Admins_can_view_all_sales(r, uid) }

\* policy "Users can view accessible sale items"
Users_can_view_accessible_sale_items(row, uid) ==
  \E r \in SelectSales(uid) :
    r.id = row.sale_id /\ (r.seller_id = uid \/ is_admin(uid))

\* SELECT * FROM sale_items as uid
SelectSaleItems(uid) ==
  { i \in sale_items : Users_can_view_accessible_sale_items(i, uid) }

\* policy "System can insert stock adjustments": WITH CHECK (true)
System_can_insert_stock_adjustments(row, uid) == TRUE

\* UPDATE sales SET seller_id = seller WHERE id = .. sent by uid, for the
\* sale of a finished checkout: rows the UPDATE policy lets through are
\* rewritten
UpdateSale(uid, id, seller) ==
  /\ pc[id] = "done"
  /\ \E r \in sales :
       /\ r.id = id
       /\ Admins_can_manage_sales(r, uid)
       /\ LET new == [r EXCEPT !.seller_id = seller]
          IN /\ new # r
             /\ Admins_can_manage_sales(new, uid)
             /\ sales' = (sales \ {r}) \cup {new}
  /\ UNCHANGED << sales_transaction_seq, sale_items, stock_adjustments,
                  quantity, initial_quantity, items, pc, error,
                  NEW_transaction_number, txnvars, formvars,
                  cartvars, appvars >>

\* INSERT INTO sale_items of one row of one unit sent by uid for the sale
\* of a finished checkout: policy, then the stock trigger, in one statement
\* that finds the product row unlocked and commits (one such row per sale
\* and product)
InsertSaleItem(uid, id, p) ==
  LET row == [ sale_id |-> id, product_id |-> p, quantity |-> 1,
               unit_price |-> selling_price[p],
               line_total |-> line_total(selling_price[p], 1) ]
      updated == SetQuantity(quantity[p], quantity[p], 1)
  IN /\ pc[id] = "done"
     /\ \A i \in sale_items : ~ (i.sale_id = id /\ i.product_id = p)
     /\ sale_items_quantity_check(row.quantity)
     /\ Sellers_can_insert_sale_items(row, uid)
     /\ row_lock[p] = NoOne
     /\ products_quantity_check(updated)
     /\ sale_items' = sale_items \cup {row}
     /\ quantity' = [quantity EXCEPT ![p] = updated]
     /\ stock_adjustments' = stock_adjustments \cup
          { [ LedgerRow(id, p, 1, quantity[p],
                        new_qty(quantity[p], updated, 1),
                        quantity[p], updated)
              EXCEPT !.adjusted_by =
                (CHOOSE r \in sales : r.id = id).seller_id ] }
     /\ UNCHANGED << sales_transaction_seq, sales, initial_quantity, items,
                     pc, error, NEW_transaction_number, txnvars, formvars,
                     cartvars, appvars >>

\* INSERT INTO stock_adjustments sent by uid: a row that names the sale of
\* a finished checkout as its reference and changes no stock (one such row
\* per sale)
InsertStockAdjustment(uid, id, p) ==
  LET row == [ LedgerRow(id, p, 0, 0, 0, 0, 0)
               EXCEPT !.adjustment_type = "adjustment" ]
  IN /\ pc[id] = "done"
     /\ \A a \in stock_adjustments :
          ~ (a.reference_id = id /\ a.adjustment_type = "adjustment")
     /\ System_can_insert_stock_adjustments(row, uid)
     /\ stock_adjustments' = stock_adjustments \cup {row}
     /\ UNCHANGED << sales_transaction_seq, sales, sale_items, quantity,
                     initial_quantity, items, pc, error,
                     NEW_transaction_number, txnvars, formvars,
                     cartvars, appvars >>

\* carts of one line
OneLineCarts == { c \in Carts : Len(c) = 1 }

\* both sellers hold a one-line cart; a session's profile may be another
\* user's than the one its token names
InitAccess ==
  /\ InitWith(OneLineCarts, [Sellers -> Sellers])
  /\ sales_transaction_seq = SeqStart - 1

NextAccess ==
  \/ \E s \in Sellers :
       \/ handleProcessPayment(s)
       \/ set_transaction_number(s)
       \/ InsertSale(s)
       \/ InsertSaleItems(s)
       \/ TriggerSelect(s)
       \/ TriggerUpdate(s)
       \/ CommitSaleItems(s)
  \/ \E uid \in Users, id \in Sellers :
       \/ \E seller \in Sellers : UpdateSale(uid, id, seller)
       \/ \E p \in Products : InsertSaleItem(uid, id, p)
       \/ \E p \in Products : InsertStockAdjustment(uid, id, p)

SpecAccess == InitAccess /\ [][NextAccess]_vars

(* ----------------------- carts with a line of no unit ------------------ *)
\* addItem stores the quantity it is given without a test, so a cart line
\* can hold quantity 0
ZeroLine == [product_id : Products, quantity : {0}]

\* carts of one line per product of which at least one holds quantity 0
CartsWithZeroLine ==
  { << l >> : l \in ZeroLine } \cup
  { c \in (CartLine \cup ZeroLine) \X (CartLine \cup ZeroLine) :
      /\ c[1].product_id # c[2].product_id
      /\ \E l \in LinesOf(c) : l.quantity <= 0 }

\* at least one session's cart holds a line of quantity 0
InitInvalidLine ==
  /\ InitWith(Carts \cup CartsWithZeroLine, {OwnProfile})
  /\ sales_transaction_seq = SeqStart - 1
  /\ \E s \in Sellers : items[s] \in CartsWithZeroLine

NextInvalidLine ==
  \E s \in Sellers :
    \/ handleProcessPayment(s)
    \/ set_transaction_number(s)
    \/ InsertSale(s)
    \/ InsertSaleItems(s)
    \/ TriggerSelect(s)
    \/ TriggerUpdate(s)
    \/ CommitSaleItems(s)

SpecInvalidLine == InitInvalidLine /\ [][NextInvalidLine]_vars

(* ------------------ inserts that supply their own number --------------- *)
\* numbers a client puts in the transaction_number of its own insert
SuppliedNumbers == { TransactionNumber(v) : v \in {SeqStart, SeqStart + 1} }

\* a sales insert sent with transaction_number set (the column is open to
\* the client; set_transaction_number keeps a number that is not empty)
InsertSaleWithNumber(s, tn) ==
  /\ pc[s] = "idle"
  /\ Len(items[s]) > 0
  /\ NEW_transaction_number' = [NEW_transaction_number EXCEPT ![s] = tn]
  /\ pc' = [pc EXCEPT ![s] = "insert_sale"]
  /\ UNCHANGED << sales_transaction_seq, dbvars, initial_quantity, items,
                  error, txnvars, formvars, cartvars, appvars >>

\* both sellers hold a one-line cart, the sequence is fresh
InitSupplied ==
  /\ InitWith(OneLineCarts, {OwnProfile})
  /\ sales_transaction_seq = SeqStart - 1

NextSupplied ==
  \E s \in Sellers :
    \/ \E tn \in SuppliedNumbers : InsertSaleWithNumber(s, tn)
    \/ handleProcessPayment(s)
    \/ set_transaction_number(s)
    \/ InsertSale(s)
    \/ InsertSaleItems(s)
    \/ TriggerSelect(s)
    \/ TriggerUpdate(s)
    \/ CommitSaleItems(s)

SpecSupplied == InitSupplied /\ [][NextSupplied]_vars

(* ----------------------------- invitations ----------------------------- *)
\* every variable of the point of sale
posvars == << sales_transaction_seq, dbvars, initial_quantity, items, pc,
              error, NEW_transaction_number, txnvars, formvars, cartvars >>

\* addresses an admin invites; the second is the address of a profile
Emails == {"new@shop", "admin@shop"}
profiles_email == {"admin@shop"}

\* .maybeSingle(): the row when exactly one matches, null when none does,
\* and an error (data null) when several do
maybeSingle(rows) == IF Cardinality(rows) = 1 THEN rows ELSE {}

\* entry of sendInvitation (the address passes the format test)
sendInvitation(c, email) ==
  /\ sendInvitation_call[c].pc = "idle"
  /\ sendInvitation_call' =
       [sendInvitation_call EXCEPT ![c] = [pc |-> "checkExistingProfile",
                                           email |-> email]]
  /\ UNCHANGED << posvars, user_invitations, retry, auth >>

\* select from profiles by email; if (existingProfile) throw
checkExistingProfile(c) ==
  /\ sendInvitation_call[c].pc = "checkExistingProfile"
  /\ sendInvitation_call' =
       [sendInvitation_call EXCEPT
          ![c].pc = IF maybeSingle({ e \in profiles_email :
                                      e = sendInvitation_call[c].email }) # {}
                    THEN "failed" ELSE "checkExistingInvite"]
  /\ UNCHANGED << posvars, user_invitations, retry, auth >>

\* select from user_invitations by email and status 'pending';
\* if (existingInvite) throw (an error of the select is only logged)
checkExistingInvite(c) ==
  /\ sendInvitation_call[c].pc = "checkExistingInvite"
  /\ sendInvitation_call' =
       [sendInvitation_call EXCEPT
          ![c].pc = IF maybeSingle({ r \in user_invitations :
                                      /\ r.email = sendInvitation_call[c].email
                                      /\ r.status = "pending" }) # {}
                    THEN "failed" ELSE "generateToken"]
  /\ UNCHANGED << posvars, user_invitations, retry, auth >>

\* rpc generate_invite_token: a token no invitation holds, here the pair
\* of the call and the number of the issue
invite_token(c, issue) == [call |-> c, issue |-> issue]

generateToken(c) ==
  /\ sendInvitation_call[c].pc = "generateToken"
  /\ \A r \in user_invitations : r.invite_token # invite_token(c, 1)
  /\ sendInvitation_call' =
       [sendInvitation_call EXCEPT ![c].pc = "createInvitation"]
  /\ UNCHANGED << posvars, user_invitations, retry, auth >>

\* insert into user_invitations with status 'pending'
createInvitation(c) ==
  /\ sendInvitation_call[c].pc = "createInvitation"
  /\ user_invitations' = user_invitations \cup
       { [ id |-> c, email |-> sendInvitation_call[c].email,
           status |-> "pending", invite_token |-> invite_token(c, 1) ] }
  /\ sendInvitation_call' = [sendInvitation_call EXCEPT ![c].pc = "done"]
  /\ UNCHANGED << posvars, retry, auth >>

\* revokeInvitation: update .. set status = 'revoked' where id = ..
revokeInvitation(id) ==
  /\ \E r \in user_invitations :
       /\ r.id = id
       /\ r.status # "revoked"
       /\ user_invitations' =
            (user_invitations \ {r}) \cup {[r EXCEPT !.status = "revoked"]}
  /\ UNCHANGED << posvars, sendInvitation_call, retry, auth >>

\* resendInvitation: update .. set invite_token = <new token>, status =
\* 'pending' where id = .. (an invitation is resent once)
resendInvitation(id) ==
  /\ \E r \in user_invitations :
       /\ r.id = id
       /\ r.invite_token = invite_token(id, 1)
       /\ user_invitations' =
            (user_invitations \ {r}) \cup
              { [r EXCEPT !.status = "pending",
                          !.invite_token = invite_token(id, 2)] }
  /\ UNCHANGED << posvars, sendInvitation_call, retry, auth >>

\* the point of sale is idle with empty carts; no invitation exists
InitInvitations ==
  /\ InitWith({ << >> }, {OwnProfile})
  /\ sales_transaction_seq = SeqStart - 1

NextInvitations ==
  \E c \in Calls :
    \/ \E email \in Emails : sendInvitation(c, email)
    \/ checkExistingProfile(c)
    \/ checkExistingInvite(c)
    \/ generateToken(c)
    \/ createInvitation(c)
    \/ revokeInvitation(c)
    \/ resendInvitation(c)

SpecInvitations == InitInvitations /\ [][NextInvitations]_vars

(* ---------------------------- retryOperation --------------------------- *)
\* ErrorCategory of the error an operation rejects with (classifyError)
ErrorCategory ==
  {"network", "authentication", "authorization", "validation", "not_found",
   "conflict", "server", "unknown"}

isRetryable_all(category) == TRUE

\* isRetryable: [NETWORK, SERVER].includes(category)
isRetryable(category) == category \in {"network", "server"}

\* values of options.maxRetries
RetryInputs == (-1)..MaxRetriesBound

\* entry of retryOperation: attempt = 0; the loop runs while
\* attempt <= maxRetries and `throw lastError` follows it
retryOperation(maxRetries) ==
  /\ retry.pc = "idle"
  /\ retry' = [retry EXCEPT !.maxRetries = maxRetries, !.attempt = 0,
                            !.pc = IF 0 <= maxRetries THEN "operation"
                                   ELSE "thrown"]
  /\ UNCHANGED << posvars, user_invitations, sendInvitation_call, auth >>

\* return await operation(), the operation resolves
operationResolves ==
  /\ retry.pc = "operation"
  /\ retry' = [retry EXCEPT !.calls = @ + 1, !.pc = "returned"]
  /\ UNCHANGED << posvars, user_invitations, sendInvitation_call, auth >>

\* the operation rejects: the catch block up to the timer
operationRejects(category) ==
  /\ retry.pc = "operation"
  /\ IF ~ isRetryable(category) \/ retry.attempt = retry.maxRetries
     THEN retry' = [retry EXCEPT !.calls = @ + 1,
                                 !.errors = Append(@, category),
                                 !.thrown = category, !.pc = "thrown"]
     ELSE retry' = [retry EXCEPT !.calls = @ + 1,
                                 !.errors = Append(@, category),
                                 !.delay = Min(initialDelay * 2 ^ retry.attempt,
                                               maxDelay),
                                 !.pc = "delay"]
  /\ UNCHANGED << posvars, user_invitations, sendInvitation_call, auth >>

\* the timer fires: attempt++ and the loop test
setTimeout_resolve ==
  /\ retry.pc = "delay"
  /\ retry' = [retry EXCEPT !.attempt = @ + 1,
                            !.pc = IF retry.attempt + 1 <= retry.maxRetries
                                   THEN "operation" ELSE "thrown"]
  /\ UNCHANGED << posvars, user_invitations, sendInvitation_call, auth >>

\* the point of sale is idle: empty carts, full stock, a fresh sequence
IdlePOS ==
  /\ InitWith({ << >> }, {OwnProfile})
  /\ sales_transaction_seq = SeqStart - 1
  /\ quantity = [p \in Products |-> MaxStock]

InitRetry == IdlePOS

NextRetry ==
  \/ \E maxRetries \in RetryInputs : retryOperation(maxRetries)
  \/ operationResolves
  \/ \E category \in ErrorCategory : operationRejects(category)
  \/ setTimeout_resolve

\* the operation settles and the timer fires
SpecRetry == InitRetry /\ [][NextRetry]_vars /\ WF_vars(NextRetry)

(* --------------------------- authStore.login --------------------------- *)
\* the accounts that sign in, and what the form can hand to login
Accounts == {"u1", "u2"}
LoginInputs == {"empty", "bad_email", "short_password", "ok"}

\* let retries = 3
login_retries == 3

\* the ways supabase.auth.signInWithPassword answers
SignInResults ==
  {"invalid_credentials", "email_not_confirmed", "auth_error", "no_user"}
    \cup Accounts

\* the ways the profiles query with maybeSingle() answers
FetchResults == {"data", "error", "none"}

\* the message login throws for an input the validation refuses
ValidationMessage(input) ==
  CASE input = "empty"          -> "Email and password are required"
    [] input = "bad_email"      -> "Please enter a valid email address"
    [] input = "short_password" -> "Password must be at least 6 characters"

\* the message login throws for an answer of signInWithPassword without a user
SignInMessage(result) ==
  CASE result = "invalid_credentials" -> "Invalid email or password"
    [] result = "email_not_confirmed" -> "Please confirm your email address"
    [] result = "auth_error"          -> "getUserFriendlyMessage(authError)"
    [] result = "no_user"             -> "Login failed. Please try again."

\* a catch block that forgets the user it has set
login_catch_keeps_user(a, message) ==
  [a EXCEPT !.error = message, !.profile = NoOne, !.loading = FALSE,
            !.pc = "rejected"]

\* catch: set({ error, user: null, profile: null }); throw err;
\* finally: set({ loading: false })
login_catch(a, message) ==
  [a EXCEPT !.error = message, !.user = NoOne, !.profile = NoOne,
            !.loading = FALSE, !.pc = "rejected"]

\* after the loop: throw without profile data, else set the profile;
\* finally: set({ loading: false })
login_afterLoop(a) ==
  IF a.profileError # NoOne /\ a.profileData = NoOne
    THEN login_catch(a, "Failed to load user profile")
  ELSE IF a.profileData = NoOne
    THEN login_catch(a, "User profile not found")
  ELSE [a EXCEPT !.profile = a.profileData, !.error = NoOne,
                 !.loading = FALSE, !.pc = "resolved"]

\* initialize up to its first await, called once when App mounts
initialize ==
  /\ auth.pc = "idle"
  /\ auth' = [auth EXCEPT !.loading = TRUE, !.error = NoOne,
                          !.pc = "getSession"]
  /\ UNCHANGED << posvars, user_invitations, sendInvitation_call, retry >>

\* getSession answers with the stored session's user, with no session, or
\* it throws
getSession(session) ==
  /\ auth.pc = "getSession"
  /\ auth' = IF session \in Accounts
               THEN [auth EXCEPT !.user = session, !.pc = "initialize_fetch"]
             ELSE IF session = "throws"
               THEN [auth EXCEPT !.error = "getUserFriendlyMessage(err)",
                                 !.loading = FALSE, !.pc = "ready"]
             ELSE [auth EXCEPT !.loading = FALSE, !.pc = "ready"]
  /\ UNCHANGED << posvars, user_invitations, sendInvitation_call, retry >>

\* the profile query of initialize answers; catch sets only the error
initialize_fetchProfile(result) ==
  /\ auth.pc = "initialize_fetch"
  /\ auth' = CASE result = "data" ->
                  [auth EXCEPT !.profile = auth.user, !.loading = FALSE,
                               !.pc = "ready"]
               [] result = "error" ->
                  [auth EXCEPT !.error = "getUserFriendlyMessage(err)",
                               !.loading = FALSE, !.pc = "ready"]
               [] result = "none" ->
                  [auth EXCEPT !.error = "User profile not found",
                               !.user = NoOne, !.loading = FALSE,
                               !.pc = "ready"]
  /\ UNCHANGED << posvars, user_invitations, sendInvitation_call, retry >>

\* logout up to its await, from the dashboard of a signed-in user
logout ==
  /\ auth.pc \in {"ready", "resolved", "rejected"}
  /\ auth.user # NoOne
  /\ auth' = [auth EXCEPT !.loading = TRUE, !.error = NoOne, !.pc = "signOut"]
  /\ UNCHANGED << posvars, user_invitations, sendInvitation_call, retry >>

\* signOut answers: the user and the profile are cleared either way
signOut(signOutError) ==
  /\ auth.pc = "signOut"
  /\ auth' = [auth EXCEPT
                !.error = IF signOutError THEN "getUserFriendlyMessage(err)"
                                          ELSE NoOne,
                !.user = NoOne, !.profile = NoOne, !.loading = FALSE,
                !.pc = "ready"]
  /\ UNCHANGED << posvars, user_invitations, sendInvitation_call, retry >>

\* login up to its first await: set({ loading: true, error: null }) and the
\* validation of the inputs; the form's button is disabled while loading
login(input) ==
  /\ auth.pc \in {"ready", "resolved", "rejected"}
  /\ auth.loading = FALSE
  /\ LET a == [auth EXCEPT !.loading = TRUE, !.error = NoOne, !.fetches = 0,
                           !.retries = 0, !.profileData = NoOne,
                           !.profileError = NoOne]
     IN auth' = IF input = "ok"
                  THEN [a EXCEPT !.pc = "signInWithPassword"]
                  ELSE login_catch(a, ValidationMessage(input))
  /\ UNCHANGED << posvars, user_invitations, sendInvitation_call, retry >>

\* signInWithPassword answers: throw, or set({ user }) and enter the loop
signInWithPassword(result) ==
  /\ auth.pc = "signInWithPassword"
  /\ auth' = IF result \in Accounts
               THEN [auth EXCEPT !.user = result, !.retries = login_retries,
                                 !.pc = "fetchProfile"]
               ELSE login_catch(auth, SignInMessage(result))
  /\ UNCHANGED << posvars, user_invitations, sendInvitation_call, retry >>

\* one pass of while (retries > 0 && !profileData), from the answer of the
\* query to the next await or to the end of login
fetchProfile(result) ==
  /\ auth.pc = "fetchProfile"
  /\ auth.retries > 0 /\ auth.profileData = NoOne
  /\ LET a == [auth EXCEPT
                 !.fetches = @ + 1,
                 !.profileData = IF result = "data" THEN auth.user ELSE NoOne,
                 !.profileError = IF result = "error" THEN "error" ELSE NoOne,
                 !.retries = IF result = "data" THEN @ ELSE @ - 1]
     IN auth' = IF result # "data" /\ a.retries > 0
                  THEN [a EXCEPT !.pc = "setTimeout"]
                  ELSE login_afterLoop(a)
  /\ UNCHANGED << posvars, user_invitations, sendInvitation_call, retry >>

\* the 300 ms timer fires and the loop condition is evaluated again
login_setTimeout ==
  /\ auth.pc = "setTimeout"
  /\ auth' = IF auth.retries > 0 /\ auth.profileData = NoOne
               THEN [auth EXCEPT !.pc = "fetchProfile"]
               ELSE login_afterLoop(auth)
  /\ UNCHANGED << posvars, user_invitations, sendInvitation_call, retry >>

InitLogin == IdlePOS

NextLogin ==
  \/ initialize
  \/ \E session \in Accounts \cup {NoOne, "throws"} : getSession(session)
  \/ \E result \in FetchResults : initialize_fetchProfile(result)
  \/ logout
  \/ \E signOutError \in BOOLEAN : signOut(signOutError)
  \/ \E input \in LoginInputs : login(input)
  \/ \E result \in SignInResults : signInWithPassword(result)
  \/ \E result \in FetchResults : fetchProfile(result)
  \/ login_setTimeout

SpecLogin == InitLogin /\ [][NextLogin]_vars

(* ------------------------------ helpers -------------------------------- *)
Settled(s) == pc[s] \in {"done", "failed", "rejected"}

RECURSIVE SumField(_, _)
\* sum of a numeric field over a finite set of rows
SumField(rows, f) ==
  IF rows = {} THEN 0
  ELSE LET r == CHOOSE x \in rows : TRUE
       IN r[f] + SumField(rows \ {r}, f)

ItemsOf(p)  == { i \in sale_items : i.product_id = p }
LedgerOf(p) == { a \in stock_adjustments : a.product_id = p }

(* ------------------------------- claims -------------------------------- *)
\* C1: the transaction numbers stored on the sales rows of concurrently
\* committed checkouts are pairwise distinct.
C1_TransactionNumbersDistinct ==
  \A r1, r2 \in sales :
    r1.transaction_number = r2.transaction_number => r1 = r2

\* both sellers' sales rows are stored, each with a trigger-assigned number
C1_Witness ==
  /\ \A s \in Sellers : \E r \in sales : r.id = s
  /\ \A r \in sales : Len(r.transaction_number) = Len(TXN_Prefix) + PadWidth

\* C2: every product's quantity is >= 0 in every reachable state.
C2_QuantityNonNegative == \A p \in Products : quantity[p] >= 0

\* a sale has emptied a product and another checkout was refused by the CHECK
C2_Witness ==
  /\ \E s \in Sellers : error[s] = "products_quantity_check"
  /\ \E p \in Products : quantity[p] = 0 /\ ItemsOf(p) # {}

\* C3: a checkout that failed leaves no sales row, no sale_items row and no
\* stock_adjustments row behind, and stock is changed by nothing but the
\* checkouts that succeeded.
C3_FailedCheckoutLeavesNothing ==
  /\ \A s \in Sellers :
       pc[s] \in {"failed", "rejected"} =>
         /\ \A r \in sales : r.id # s
         /\ \A i \in sale_items : i.sale_id # s
         /\ \A a \in stock_adjustments : a.reference_id # s
  /\ \A p \in Products :
       quantity[p] = initial_quantity[p] -
         SumField({ i \in ItemsOf(p) : pc[i.sale_id] = "done" }, "quantity")

\* C4: a reader never sees a sales row whose sale_items rows are missing.
C4_HeaderNeverWithoutItems ==
  \A r \in sales : \E i \in sale_items : i.sale_id = r.id

\* C5: of two concurrent checkouts of the last unit of a product exactly
\* one succeeds, the other fails on insufficient stock, and the product's
\* final stock is 0.
C5_LastUnitSoldOnce ==
  (\A s \in Sellers : Settled(s)) =>
    /\ \E s \in Sellers :
         /\ pc[s] = "done"
         /\ \A t \in Sellers \ {s} :
              pc[t] = "failed" /\ error[t] = "products_quantity_check"
    /\ quantity["p1"] = 0

\* both last-unit checkouts have run to their end
C5_Witness ==
  /\ \A s \in Sellers : Settled(s) /\ items[s] = LastUnit
  /\ initial_quantity["p1"] = 1
  /\ Cardinality(sales) = Cardinality(Sellers)

\* C6: stock decrements of concurrent checkouts serialize: the quantity of a
\* product is its initial quantity minus the quantities of the stored
\* sale_items rows, and no two stored decrements of a product started from
\* the same stock value.
C6_DecrementsSerialize ==
  \A p \in Products :
    /\ quantity[p] = initial_quantity[p] - SumField(ItemsOf(p), "quantity")
    /\ \A a, b \in LedgerOf(p) :
         a.quantity_before = b.quantity_before => a = b

\* both sellers have sold the same product
C6_Witness ==
  \E p \in Products :
    /\ Cardinality(ItemsOf(p)) = Cardinality(Sellers)
    /\ \A s \in Sellers : pc[s] = "done"

\* C7: every ledger row's previous_quantity and new_quantity are the
\* product's quantity immediately before and after the sale's decrement.
C7_LedgerMatchesDecrement ==
  \A a \in stock_adjustments :
    /\ a.previous_quantity = a.quantity_before
    /\ a.new_quantity = a.quantity_after

\* C8: every ledger row of a sale has new_quantity = previous_quantity +
\* quantity_change, with quantity_change = - the sold quantity.
C8_LedgerArithmetic ==
  \A a \in stock_adjustments :
    /\ a.new_quantity = a.previous_quantity + a.quantity_change
    /\ \E i \in sale_items :
         /\ i.sale_id = a.reference_id
         /\ i.product_id = a.product_id
         /\ a.quantity_change = - i.quantity

\* a ledger row written while another checkout had changed the same product
C8_Witness ==
  \E a \in stock_adjustments : a.previous_quantity # a.quantity_before

\* C9: replaying a product's ledger from its initial quantity gives its
\* current quantity, also across product edits.
C9_LedgerReplay ==
  \A p \in Products :
    quantity[p] =
      initial_quantity[p] + SumField(LedgerOf(p), "quantity_change")

\* C10: every sale_items row has exactly one 'sale' ledger row for its sale
\* and product, that row records the decrement by the item's quantity, and
\* every ledger row belongs to a stored item.
C10_DecrementWithLedger ==
  /\ \A i \in sale_items :
       LET rows == { a \in stock_adjustments :
                       /\ a.adjustment_type = "sale"
                       /\ a.reference_id = i.sale_id
                       /\ a.product_id = i.product_id }
       IN /\ Cardinality(rows) = 1
          /\ \A a \in rows :
               /\ a.quantity_change = - i.quantity
               /\ a.quantity_after = a.quantity_before - i.quantity
  /\ \A a \in stock_adjustments :
       \E i \in sale_items :
         i.sale_id = a.reference_id /\ i.product_id = a.product_id

\* a two-line sale is stored with both ledger rows
C10_Witness ==
  \E s \in Sellers :
    /\ pc[s] = "done"
    /\ Cardinality({ i \in sale_items : i.sale_id = s }) = 2
    /\ Cardinality({ a \in stock_adjustments : a.reference_id = s }) = 2

\* C11: when a checkout is rejected because a line exceeds the available
\* stock, none of its lines is applied: no sale_items row and no
\* stock_adjustments row of that sale is stored and stock is decremented by
\* nothing but the items of the checkouts that were not rejected.
C11_RejectedSaleAppliesNoLine ==
  /\ \A s \in Sellers :
       error[s] = "products_quantity_check" =>
         /\ \A i \in sale_items : i.sale_id # s
         /\ \A a \in stock_adjustments : a.reference_id # s
  /\ \A p \in Products :
       quantity[p] = initial_quantity[p] -
         SumField({ i \in ItemsOf(p) : error[i.sale_id] = "none" },
                  "quantity")

\* a two-line checkout was rejected on its second line, with stock for its
\* first line at hand and nobody else selling
C11_Witness ==
  \E s \in Sellers :
    /\ error[s] = "products_quantity_check"
    /\ Len(items[s]) = 2
    /\ quantity[items[s][1].product_id] >= items[s][1].quantity
    /\ quantity[items[s][2].product_id] < items[s][2].quantity
    /\ \A t \in Sellers \ {s} : pc[t] = "idle"

\* C12: the sales row of every completed checkout has total_amount =
\* subtotal - discount_amount + tax_amount and discount_amount = subtotal *
\* discount_percentage / 100.
C12_TotalsConsistent ==
  \A r \in sales :
    pc[r.id] = "done" =>
      /\ r.total_amount = r.subtotal - r.discount_amount + r.tax_amount
      /\ r.discount_amount * 100 = r.subtotal * r.discount_percentage

\* C13: for every completed checkout the line_total of its sale_items rows
\* add up to the subtotal of its sales row.
C13_LineTotalsAddUp ==
  \A r \in sales :
    pc[r.id] = "done" =>
      SumField({ i \in sale_items : i.sale_id = r.id }, "line_total")
        = r.subtotal

\* a completed checkout of two lines, one of them of more than one unit
C13_Witness ==
  \E r \in sales :
    /\ pc[r.id] = "done"
    /\ Cardinality({ i \in sale_items : i.sale_id = r.id }) = 2
    /\ \E i \in sale_items : i.sale_id = r.id /\ i.quantity > 1

\* C14: every transaction number the trigger issues is strictly greater, by
\* its numeric value, than every number issued before it.
C14_IssuedNumbersIncrease ==
  [][\A s \in Sellers :
       NEW_transaction_number'[s] # NEW_transaction_number[s] =>
         \A t \in Sellers :
           NEW_transaction_number[t] # << >> =>
             NumericValue(NEW_transaction_number'[s])
               > NumericValue(NEW_transaction_number[t])]_vars

\* C16: every number set_transaction_number assigns is 'TXN-' followed by
\* exactly PadWidth decimal digits whose numeric value is the value drawn
\* from sales_transaction_seq.
C16_NumberIsPaddedSequenceValue ==
  [][\A s \in Sellers :
       NEW_transaction_number'[s] # NEW_transaction_number[s] =>
         LET tn == NEW_transaction_number'[s]
         IN /\ Len(tn) = Len(TXN_Prefix) + PadWidth
            /\ SubSeq(tn, 1, Len(TXN_Prefix)) = TXN_Prefix
            /\ \A k \in (Len(TXN_Prefix) + 1)..Len(tn) : IsDigit(tn[k])
            /\ ToBigint(SubSeq(tn, Len(TXN_Prefix) + 1, Len(tn)))
                 = sales_transaction_seq']_vars

\* C15: after the synchronisation has run, a number the trigger issues is
\* strictly greater than the numeric value of every transaction number
\* already in sales.
C15_IssuedAboveExisting ==
  [][\A s \in Sellers :
       NEW_transaction_number'[s] # NEW_transaction_number[s] =>
         \A r \in sales :
           NumericValue(NEW_transaction_number'[s])
             > NumericValue(r.transaction_number)]_vars

\* C17: once a checkout has completed, its sales row, its sale_items rows
\* and its stock_adjustments rows are never modified and none is added.
C17_CommittedSaleImmutable ==
  [][\A id \in Sellers :
       pc[id] = "done" =>
         /\ { r \in sales' : r.id = id } = { r \in sales : r.id = id }
         /\ { i \in sale_items' : i.sale_id = id }
              = { i \in sale_items : i.sale_id = id }
         /\ { a \in stock_adjustments' : a.reference_id = id }
              = { a \in stock_adjustments : a.reference_id = id }]_vars

\* C18: a sales row enters the table only with the seller_id of the user
\* who inserts it; a seller reads only sales rows whose seller_id is their
\* own and only the sale_items of such rows; an admin reads every sales row.
C18_SalesAccess ==
  /\ [](/\ \A u \in Sellers :
             /\ \A r \in SelectSales(u) : r.seller_id = u
             /\ \A i \in SelectSaleItems(u) :
                  \E r \in sales : r.id = i.sale_id /\ r.seller_id = u
        /\ SelectSales(Admin) = sales)
  /\ [][\A r \in sales' :
          (\A x \in sales : x.id # r.id) => r.seller_id = r.id]_vars

\* a seller was denied an insert and cannot read the other seller's sale
\* nor its items, which the admin reads
C18_Witness ==
  \E u \in Sellers : \E r \in sales : \E i \in sale_items :
    /\ error[u] = "row_level_security"
    /\ i.sale_id = r.id
    /\ r \notin SelectSales(u)
    /\ i \notin SelectSaleItems(u)
    /\ r \in SelectSales(Admin)
    /\ i \in SelectSaleItems(Admin)

\* C19: a checkout that sends a seller_id other than the caller's identity
\* ends with the access error, and it creates or changes no sales,
\* sale_items, products or stock_adjustments row.
C19_DeniedInsertChangesNothing ==
  /\ [](\A s \in Sellers :
          profile[s] # s =>
            /\ pc[s] \in {"idle", "insert_sale", "sale_row", "failed"}
            /\ pc[s] = "failed" => error[s] = "row_level_security"
            /\ \A r \in sales : r.id # s
            /\ \A i \in sale_items : i.sale_id # s
            /\ \A a \in stock_adjustments : a.reference_id # s)
  /\ [][\A s \in Sellers :
          (profile[s] # s /\ pc'[s] # pc[s]) => dbvars' = dbvars]_vars

\* a checkout was denied while the other seller's sale is in the database
C19_Witness ==
  \E s \in Sellers :
    /\ profile[s] # s
    /\ pc[s] = "failed"
    /\ error[s] = "row_level_security"
    /\ sales # {}
    /\ sale_items # {}

\* C20: the checkout of a cart that holds a line with quantity <= 0 is
\* rejected and persists nothing: no sales row, no sale_items row and no
\* stock_adjustments row of it exists once it has ended, and it never
\* completes.
C20_InvalidLinePersistsNothing ==
  \A s \in Sellers :
    (\E l \in LinesOf(items[s]) : l.quantity <= 0) =>
      /\ pc[s] # "done"
      /\ Settled(s) =>
           /\ \A r \in sales : r.id # s
           /\ \A i \in sale_items : i.sale_id # s
           /\ \A a \in stock_adjustments : a.reference_id # s

\* C21: handleProcessPayment on an empty cart is rejected before any write:
\* the step that rejects it leaves sales, sale_items, products.quantity and
\* stock_adjustments (and the sequence) unchanged, the checkout goes no
\* further and no row of it ever exists.
C21_EmptyCartRejectedBeforeWrite ==
  /\ [](\A s \in Sellers :
          Len(items[s]) = 0 =>
            /\ pc[s] \in {"idle", "rejected"}
            /\ pc[s] = "rejected" => error[s] = "cart_empty"
            /\ \A r \in sales : r.id # s
            /\ \A i \in sale_items : i.sale_id # s
            /\ \A a \in stock_adjustments : a.reference_id # s)
  /\ [][\A s \in Sellers :
          (Len(items[s]) = 0 /\ pc'[s] # pc[s]) =>
            /\ dbvars' = dbvars
            /\ sales_transaction_seq' = sales_transaction_seq]_vars

\* an empty cart was rejected while the other seller's sale is stored
C21_Witness ==
  \E s \in Sellers :
    /\ Len(items[s]) = 0
    /\ pc[s] = "rejected"
    /\ error[s] = "cart_empty"
    /\ \E r \in sales : r.id # s /\ pc[r.id] = "done"

\* C22: after any sequence of addItem, updateItemQuantity and removeItem
\* calls every line of the cart has quantity > 0.
C22_CartQuantitiesPositive ==
  \A s \in Sellers : \A l \in LinesOf(items[s]) : l.quantity > 0

\* C23: the cart holds at most one line per product_id, and addItem for a
\* product already in the cart adds the given quantity to that line,
\* adds no line and leaves every other line unchanged.
C23_OneLinePerProduct ==
  \A s \in Sellers :
    /\ \A i, j \in 1..Len(items[s]) :
         i # j => items[s][i].product_id # items[s][j].product_id
    /\ \A item \in [product_id : Products, quantity : QuantityInputs] :
         InCart(items[s], item.product_id) =>
           LET new == addItem_set(items[s], item)
           IN /\ Len(new) = Len(items[s])
              /\ \A i \in 1..Len(new) :
                   IF items[s][i].product_id = item.product_id
                   THEN /\ new[i].product_id = item.product_id
                        /\ new[i].quantity
                             = items[s][i].quantity + item.quantity
                   ELSE new[i] = items[s][i]

\* a cart of two lines, one of them of more than one unit
C23_Witness ==
  \E s \in Sellers :
    /\ Len(items[s]) = 2
    /\ \E l \in LinesOf(items[s]) : l.quantity > 1

\* C24: in every cart state getSubtotal is the sum of unit_price * quantity
\* over the items, getDiscountAmount is subtotal * discount% / 100,
\* getTaxAmount is (subtotal - discount amount) * tax% / 100 and getTotal is
\* subtotal - discount amount + tax amount; for 2 units at 399.00 with 10%
\* and 16% they are 798.00, 79.80, 114.91 and 833.11 to two decimals.
C24_DerivedAmounts ==
  \A s \in Sellers :
    LET subtotal == SumField({ [ product_id |-> l.product_id,
                                 amount |-> selling_price[l.product_id]
                                              * l.quantity * Fraction ] :
                               l \in LinesOf(items[s]) }, "amount")
        discount == (subtotal \div 100) * discountPercentage[s]
        tax      == ((subtotal - discount) \div 100) * taxPercentage[s]
    IN /\ getSubtotal(s) = subtotal
       /\ getDiscountAmount(s) = discount
       /\ getTaxAmount(s) = tax
       /\ getTotal(s) = subtotal - discount + tax
       /\ ( /\ items[s] = << [product_id |-> "p1", quantity |-> 2] >>
            /\ discountPercentage[s] = 10
            /\ taxPercentage[s] = 16 )
          => /\ DECIMAL_10_2(getSubtotal(s)) = 79800
             /\ DECIMAL_10_2(getDiscountAmount(s)) = 7980
             /\ DECIMAL_10_2(getTaxAmount(s)) = 11491
             /\ DECIMAL_10_2(getTotal(s)) = 83311

\* scenario A: 2 units at 399.00, 10% discount, 16% tax
C24_Witness ==
  \E s \in Sellers :
    /\ items[s] = << [product_id |-> "p1", quantity |-> 2] >>
    /\ selling_price["p1"] = 39900
    /\ discountPercentage[s] = 10
    /\ taxPercentage[s] = 16

\* C25: in every cart state 0 <= discountPercentage <= 100 and
\* taxPercentage >= 0; a step that changes a percentage stores the input
\* clamped: 0, 100 or an input within 0..100 for the discount, 0 or a
\* non-negative input for the tax.
C25_PercentagesClamped ==
  /\ [](\A s \in Sellers :
          /\ 0 <= discountPercentage[s] /\ discountPercentage[s] <= 100
          /\ taxPercentage[s] >= 0)
  /\ [][\A s \in Sellers :
          /\ discountPercentage'[s] # discountPercentage[s] =>
               discountPercentage'[s] \in
                 {0, 100} \cup { p \in DiscountInputs : 0 <= p /\ p <= 100 }
          /\ taxPercentage'[s] # taxPercentage[s] =>
               taxPercentage'[s] \in {0} \cup { p \in TaxInputs : p >= 0 }]_vars

\* an input above 100 was stored as 100 next to a tax
C25_Witness ==
  \E s \in Sellers :
    /\ discountPercentage[s] = 100
    /\ 100 \notin DiscountInputs
    /\ taxPercentage[s] > 0

\* C26: a checkout that is running or has failed never changes the cart's
\* items; the checkout empties the cart only once both inserts succeeded.
C26_CartKeptUnlessSucceeded ==
  /\ [](\A s \in Sellers :
          /\ pc[s] = "failed" => Len(items[s]) > 0
          /\ pc[s] = "cleared" =>
               /\ error[s] = "none"
               /\ \E r \in sales : r.id = s
               /\ \E i \in sale_items : i.sale_id = s)
  /\ [][\A s \in Sellers :
          items'[s] # items[s] =>
            \/ pc[s] = "idle"
            \/ pc[s] = "done" /\ error[s] = "none"]_vars

\* a failed checkout whose cart still holds its two lines
C26_Witness ==
  \E s \in Sellers :
    /\ pc[s] = "failed"
    /\ error[s] = "products_quantity_check"
    /\ Len(items[s]) = 2

\* C27: the number set_transaction_number assigns to an insert that left
\* transaction_number empty is never already present in sales, so such an
\* insert never fails on the unique key.
C27_AssignedNumberIsFree ==
  [][\A s \in Sellers :
       ( /\ pc[s] = "insert_sale"
         /\ NEW_transaction_number[s] = << >>
         /\ NEW_transaction_number'[s] # << >> ) =>
         \A r \in sales :
           r.transaction_number # NEW_transaction_number'[s]]_vars

\* C28: at any time at most one invitation with status 'pending' exists
\* per email address.
C28_OnePendingPerEmail ==
  \A e \in Emails :
    Cardinality({ r \in user_invitations :
                    r.email = e /\ r.status = "pending" }) <= 1

\* C29: retryOperation invokes the operation at most maxRetries + 1 times,
\* returns at the first success, rethrows at once when the error is not
\* retryable, otherwise rethrows the error of the last attempt, and it
\* terminates.
C29_RetryOperation ==
  /\ [](/\ retry.calls <= Max(0, retry.maxRetries + 1)
        /\ retry.pc = "returned" => retry.calls = Len(retry.errors) + 1
        /\ retry.pc \in {"operation", "delay"} =>
             /\ retry.calls = Len(retry.errors)
             /\ \A i \in 1..Len(retry.errors) :
                  retry.errors[i] \in {"network", "server"}
        /\ (retry.pc = "thrown" /\ retry.calls > 0) =>
             /\ retry.calls = Len(retry.errors)
             /\ retry.thrown = retry.errors[Len(retry.errors)]
             /\ \A i \in 1..(Len(retry.errors) - 1) :
                  retry.errors[i] \in {"network", "server"}
             /\ \/ retry.thrown \notin {"network", "server"}
                \/ retry.calls = retry.maxRetries + 1)
  /\ [][retry.pc \in {"returned", "thrown"} => retry' = retry]_vars
  /\ <>(retry.pc \in {"returned", "thrown"})

\* the last allowed attempt failed with a retryable error after a retry
C29_Witness ==
  /\ retry.pc = "thrown"
  /\ retry.calls = retry.maxRetries + 1
  /\ retry.calls > 1
  /\ retry.thrown \in {"network", "server"}

\* C30: when authStore.login settles, loading is false and either user and
\* profile are both set and error is null, or user and profile are both null
\* and error is set; login fetches the profile at most 3 times.
C30_LoginSettles ==
  /\ auth.fetches <= 3
  /\ auth.pc \in {"resolved", "rejected"} =>
       /\ auth.loading = FALSE
       /\ \/ auth.user # NoOne /\ auth.profile # NoOne /\ auth.error = NoOne
          \/ auth.user = NoOne /\ auth.profile = NoOne /\ auth.error # NoOne

\* login signed the user in and gave up after the third profile fetch
C30_Witness ==
  /\ auth.pc = "rejected"
  /\ auth.fetches = 3
  /\ auth.error = "User profile not found"

====
